---- MODULE Spec2Model ----
(***************************************************************************)
(* A model of python-gnu-coreutils' library helpers:                       *)
(*   lib/textproc/buffer.py   FifoBuffer (trailing-window buffer)          *)
(*   lib/system/fileutils.py  copy (chunked file copy)                     *)
(*   lib/textproc/page.py     more (terminal pager)                        *)
(* Python lists and byte strings are TLA+ sequences, indexed from 1.       *)
(***************************************************************************)
EXTENDS Integers, Sequences, FiniteSets, TLC

(* ------------------------------ bounds -------------------------------- *)

\* |size| handed to the FifoBuffer constructor ranges over -MaxSize..MaxSize
MaxSize == 2
\* elements fed to filter are drawn from 1..MaxElem
MaxElem == 2
\* longest data handed to one filter call
MaxChunk == 3
\* filter is called while fewer than MaxTotal elements have been fed
MaxTotal == 5

\* longest file on disk when copy is called
MaxFile == 3
\* largest explicit bufsize handed to copy
MaxBuf == 2

\* most lines in the input of more, and the longest of them
MaxLines == 3
MaxLineLen == 3
\* largest number argument of more, tallest and widest terminal
MaxNumber == 2
MaxTermLines == 2
MaxCols == 2

Elems == 1..MaxElem

\* the sequences over S of length at most n
SeqsUpTo(S, n) == UNION {[1..k -> S] : k \in 0..n}

(* -------------------------- Python primitives ------------------------- *)

\* a variant of abs that keeps the sign
abs_signed(n) == n

\* abs() on int
abs(n) == IF n < 0 THEN 0 - n ELSE n

\* a variant of slice_index that takes a negative bound for the start
slice_index_nowrap(i, n) ==
    IF i < 0 THEN 0 ELSE (IF i > n THEN n ELSE i)

\* Where a slice bound lands in a sequence of length n: a negative bound
\* counts from the end, and the result is clamped to 0..n.
slice_index(i, n) ==
    IF i < 0 THEN (IF i + n < 0 THEN 0 ELSE i + n)
    ELSE (IF i > n THEN n ELSE i)

\* s[:stop]
slice_to(s, stop) == SubSeq(s, 1, slice_index(stop, Len(s)))

\* s[:stop] = v, as the new value of s
assign_slice_to(s, stop, v) ==
    v \o SubSeq(s, slice_index(stop, Len(s)) + 1, Len(s))

\* a variant of extend that puts the new elements in front
extend_front(s, data) == data \o s

\* list.extend
extend(s, data) == s \o data

(* ------------------------------ FifoBuffer ---------------------------- *)

\* the factory the buffers are built with: list, whose call gives []
list == <<>>

\* FifoBuffer._create_buffer: self.creator()
_create_buffer(self) == self.creator

\* FifoBuffer.__init__
FifoBuffer(size, creator) ==
    LET self == [size |-> abs(size), creator |-> creator]
    IN  [size |-> self.size, creator |-> self.creator,
         buffer |-> _create_buffer(self)]

\* a variant of filter_evict that returns one element too few
filter_evict_short(self) ==
    [res  |-> slice_to(self.buffer, 0 - self.size - 1),
     self |-> [self EXCEPT !.buffer =
                  assign_slice_to(self.buffer, 0 - self.size,
                                  _create_buffer(self))]]

\* a variant of filter_evict that keeps one element too many
filter_evict_long(self) ==
    [res  |-> slice_to(self.buffer, 0 - self.size - 1),
     self |-> [self EXCEPT !.buffer =
                  assign_slice_to(self.buffer, 0 - self.size - 1,
                                  _create_buffer(self))]]

\* the eviction branch of filter, entered with the data already appended
filter_evict(self) ==
    [res  |-> slice_to(self.buffer, 0 - self.size),
     self |-> [self EXCEPT !.buffer =
                  assign_slice_to(self.buffer, 0 - self.size,
                                  _create_buffer(self))]]

\* a variant of filter without the size == 0 branch
filter_nozero(self, data) ==
    LET ext == [self EXCEPT !.buffer = extend(self.buffer, data)]
    IN  IF Len(ext.buffer) > ext.size
        THEN filter_evict(ext)
        ELSE [res |-> _create_buffer(ext), self |-> ext]

\* a variant of filter that returns data while within capacity
filter_echo(self, data) ==
    IF self.size = 0
    THEN [res |-> data, self |-> self]
    ELSE LET ext == [self EXCEPT !.buffer = extend(self.buffer, data)]
         IN  IF Len(ext.buffer) > ext.size
             THEN filter_evict(ext)
             ELSE [res |-> data, self |-> ext]

\* a variant of filter that returns the window while within capacity
filter_window(self, data) ==
    IF self.size = 0
    THEN [res |-> data, self |-> self]
    ELSE LET ext == [self EXCEPT !.buffer = extend(self.buffer, data)]
         IN  IF Len(ext.buffer) > ext.size
             THEN filter_evict(ext)
             ELSE [res |-> ext.buffer, self |-> ext]

\* a variant of filter that lets the window grow one past the capacity
\* before it evicts
filter_lazy(self, data) ==
    IF self.size = 0
    THEN [res |-> data, self |-> self]
    ELSE LET ext == [self EXCEPT !.buffer = extend(self.buffer, data)]
         IN  IF Len(ext.buffer) > ext.size + 1
             THEN filter_evict(ext)
             ELSE [res |-> _create_buffer(ext), self |-> ext]

\* FifoBuffer.filter: the value returned and the object afterwards
filter(self, data) ==
    IF self.size = 0
    THEN [res |-> data, self |-> self]
    ELSE LET ext == [self EXCEPT !.buffer = extend(self.buffer, data)]
         IN  IF Len(ext.buffer) > ext.size
             THEN filter_evict(ext)
             ELSE [res |-> _create_buffer(ext), self |-> ext]

\* a variant of get_buffer that stops one element early
get_buffer_short(self) == slice_to(self.buffer, self.size - 1)

\* FifoBuffer.get_buffer: the value returned (self is only read)
get_buffer(self) == slice_to(self.buffer, self.size)

\* data fed to self one element per filter call: the outputs concatenated,
\* and the object afterwards
RECURSIVE feed_each(_, _)
feed_each(self, data) ==
    IF data = <<>>
    THEN [res |-> <<>>, self |-> self]
    ELSE LET r    == filter(self, <<Head(data)>>)
             rest == feed_each(r.self, Tail(data))
         IN  [res |-> r.res \o rest.res, self |-> rest.self]

VARIABLES
    sizeArg,   \* the size the constructor was called with
    fifo,      \* FifoBuffer(sizeArg, list)
    twin,      \* FifoBuffer(-sizeArg, list), driven by the same calls
    single,    \* FifoBuffer(sizeArg, list), fed one element per call
    fed,       \* d1 + d2 + ... + dn, all data handed to filter so far
    out,       \* all values returned by fifo.filter so far, concatenated
    singleOut, \* all values returned by single.filter so far, concatenated
    call       \* the last completed call, with the values it returned

fifoVars == <<sizeArg, fifo, twin, single, fed, out, singleOut, call>>

VARIABLES
    fs,         \* the files on disk: path -> [exists, bytes]
    srcPath,    \* copy's arguments
    dstPath,
    bufsizeArg,
    pc,         \* the line copy is about to run, or "done" / "raised"
    srcFile,    \* the reader: [open, pos]
    dstFile,    \* the buffered writer: [open, pending]
    data,       \* the chunk last read
    orig,       \* the source's bytes when copy was called
    reads,      \* the chunks read so far
    writes,     \* the chunks handed to dstFile.write so far
    fs0,        \* the files on disk when copy was called
    raisedAt    \* the line whose call raised, "" while none has

copyVars == <<fs, srcPath, dstPath, bufsizeArg, pc, srcFile, dstFile, data,
              orig, reads, writes, fs0, raisedAt>>

VARIABLES
    text,       \* the lines of the input when more was called
    moreData,   \* the lines the input stream has not handed out yet
    numberArg,  \* more's number argument
    termLines,  \* Term().lines()
    termCols,   \* Term().cols()
    mpc,        \* where more is: "start", "readline", "wrap", "getch",
                \* "returned"
    number,     \* more's locals
    size,
    limit,
    leftdata,   \* None and '' are both the empty sequence: only tested
    line,
    printed,    \* the pieces printed so far
    lastKey,    \* the key last returned by getch, "" before the first
    sinceKey    \* pieces printed since the last key (or since the call)

moreVars == <<text, moreData, numberArg, termLines, termCols, mpc, number,
              size, limit, leftdata, line, printed, lastKey, sinceKey>>

vars == <<fifoVars, copyVars, moreVars>>

NoCall == [op |-> "new", data |-> <<>>, pre |-> <<>>, res |-> <<>>,
           twinRes |-> <<>>]

FifoInit ==
    /\ sizeArg \in (0 - MaxSize)..MaxSize
    /\ fifo = FifoBuffer(sizeArg, list)
    /\ twin = FifoBuffer(0 - sizeArg, list)
    /\ single = FifoBuffer(sizeArg, list)
    /\ fed = <<>>
    /\ out = <<>>
    /\ singleOut = <<>>
    /\ call = NoCall

\* a caller calls filter(data) on the buffer (and on its companions)
Filter ==
    /\ Len(fed) < MaxTotal
    /\ \E d \in SeqsUpTo(Elems, MaxChunk) :
          LET r == filter(fifo, d)
              t == filter(twin, d)
              s == feed_each(single, d)
          IN  /\ fifo' = r.self
              /\ twin' = t.self
              /\ single' = s.self
              /\ fed' = fed \o d
              /\ out' = out \o r.res
              /\ singleOut' = singleOut \o s.res
              /\ call' = [op |-> "filter", data |-> d,
                          pre |-> fifo.buffer, res |-> r.res,
                          twinRes |-> t.res]
    /\ UNCHANGED sizeArg
    /\ UNCHANGED copyVars
    /\ UNCHANGED moreVars

\* a caller calls get_buffer() on the buffer (and on its twin)
GetBuffer ==
    /\ call' = [op |-> "get_buffer", data |-> <<>>, pre |-> fifo.buffer,
                res |-> get_buffer(fifo), twinRes |-> get_buffer(twin)]
    /\ UNCHANGED <<sizeArg, fifo, twin, single, fed, out, singleOut>>
    /\ UNCHANGED copyVars
    /\ UNCHANGED moreVars

(* ------------------------------- copy ---------------------------------- *)

\* module-level default of copy's bufsize parameter
bufsize == 4096

Paths == {"a", "b"}
Bytes == {0, 1}

NoFile == [exists |-> FALSE, bytes |-> <<>>]
File(b) == [exists |-> TRUE, bytes |-> b]

\* the concatenation of a sequence of chunks
RECURSIVE Concat(_)
Concat(chunks) ==
    IF chunks = <<>> THEN <<>> ELSE Head(chunks) \o Concat(Tail(chunks))

\* srcFile.read(n) at offset pos of a file holding bytes: up to n bytes,
\* all the rest when n is negative, nothing at or past the end
read(bytes, pos, n) ==
    IF n < 0 THEN SubSeq(bytes, pos + 1, Len(bytes))
    ELSE SubSeq(bytes, pos + 1,
                IF pos + n > Len(bytes) THEN Len(bytes) ELSE pos + n)

\* open(path, 'wb'): the file is created, or truncated if it exists
open_wb(files, path) == [files EXCEPT ![path] = File(<<>>)]

\* the writer's pending bytes reach the file
flush(files, path, pending) ==
    [files EXCEPT ![path] = File(files[path].bytes \o pending)]

\* no copy call is being modelled
CopyIdle ==
    /\ fs = [p \in Paths |-> NoFile]
    /\ srcPath = "a" /\ dstPath = "b" /\ bufsizeArg = bufsize
    /\ pc = "idle"
    /\ srcFile = [open |-> FALSE, pos |-> 0]
    /\ dstFile = [open |-> FALSE, pending |-> <<>>]
    /\ data = <<>> /\ orig = <<>> /\ reads = <<>> /\ writes = <<>>
    /\ fs0 = fs /\ raisedAt = ""

\* no FifoBuffer is being modelled
FifoIdle ==
    /\ sizeArg = 0
    /\ fifo = FifoBuffer(0, list)
    /\ twin = FifoBuffer(0, list)
    /\ single = FifoBuffer(0, list)
    /\ fed = <<>> /\ out = <<>> /\ singleOut = <<>>
    /\ call = NoCall

\* copy(srcPath, dstPath, bufsize) is called on some disk
CopyInit ==
    /\ fs \in [Paths -> {NoFile} \cup {File(b) : b \in SeqsUpTo(Bytes, MaxFile)}]
    /\ srcPath \in Paths
    /\ dstPath \in Paths
    /\ bufsizeArg \in ((0 - 1)..MaxBuf) \cup {bufsize}
    /\ pc = "open_src"
    /\ srcFile = [open |-> FALSE, pos |-> 0]
    /\ dstFile = [open |-> FALSE, pending |-> <<>>]
    /\ data = <<>>
    /\ orig = fs[srcPath].bytes
    /\ reads = <<>>
    /\ writes = <<>>
    /\ fs0 = fs
    /\ raisedAt = ""

\* srcFile = open(srcPath, 'rb'); a missing file raises
OpenSrc ==
    /\ pc = "open_src"
    /\ IF fs[srcPath].exists
       THEN /\ srcFile' = [open |-> TRUE, pos |-> 0] /\ pc' = "open_dst"
            /\ raisedAt' = raisedAt
       ELSE /\ srcFile' = srcFile /\ pc' = "raised"
            /\ raisedAt' = "open_src"
    /\ fs0' = fs0
    /\ UNCHANGED <<fs, srcPath, dstPath, bufsizeArg, dstFile, data, orig,
                   reads, writes>>
    /\ UNCHANGED fifoVars
    /\ UNCHANGED moreVars

\* dstFile = open(dstPath, 'wb')
OpenDst ==
    /\ pc = "open_dst"
    /\ fs' = open_wb(fs, dstPath)
    /\ dstFile' = [open |-> TRUE, pending |-> <<>>]
    /\ pc' = "read"
    /\ UNCHANGED <<srcPath, dstPath, bufsizeArg, srcFile, data, orig, reads,
                   writes>>
    /\ UNCHANGED <<fs0, raisedAt>>
    /\ UNCHANGED fifoVars
    /\ UNCHANGED moreVars

\* data = srcFile.read(bufsize); if not data: break
Read ==
    /\ pc = "read"
    /\ LET chunk == read(fs[srcPath].bytes, srcFile.pos, bufsizeArg)
       IN  /\ data' = chunk
           /\ srcFile' = [srcFile EXCEPT !.pos = @ + Len(chunk)]
           /\ reads' = Append(reads, chunk)
           /\ pc' = IF chunk = <<>> THEN "close_src" ELSE "write"
    /\ UNCHANGED <<fs, srcPath, dstPath, bufsizeArg, dstFile, orig, writes>>
    /\ UNCHANGED <<fs0, raisedAt>>
    /\ UNCHANGED fifoVars
    /\ UNCHANGED moreVars

\* dstFile.write(data): the chunk goes to the writer's buffer
Write ==
    /\ pc = "write"
    /\ dstFile' = [dstFile EXCEPT !.pending = @ \o data]
    /\ writes' = Append(writes, data)
    /\ pc' = "read"
    /\ UNCHANGED <<fs, srcPath, dstPath, bufsizeArg, srcFile, data, orig,
                   reads>>
    /\ UNCHANGED <<fs0, raisedAt>>
    /\ UNCHANGED fifoVars
    /\ UNCHANGED moreVars

\* the writer empties its buffer into the file of its own accord
Flush ==
    /\ dstFile.open /\ dstFile.pending # <<>>
    /\ fs' = flush(fs, dstPath, dstFile.pending)
    /\ dstFile' = [dstFile EXCEPT !.pending = <<>>]
    /\ UNCHANGED <<srcPath, dstPath, bufsizeArg, pc, srcFile, data, orig,
                   reads, writes>>
    /\ UNCHANGED <<fs0, raisedAt>>
    /\ UNCHANGED fifoVars
    /\ UNCHANGED moreVars

\* srcFile.close()
CloseSrc ==
    /\ pc = "close_src"
    /\ srcFile' = [srcFile EXCEPT !.open = FALSE]
    /\ pc' = "close_dst"
    /\ UNCHANGED <<fs, srcPath, dstPath, bufsizeArg, dstFile, data, orig,
                   reads, writes>>
    /\ UNCHANGED <<fs0, raisedAt>>
    /\ UNCHANGED fifoVars
    /\ UNCHANGED moreVars

\* dstFile.close(): what is pending is written out
CloseDst ==
    /\ pc = "close_dst"
    /\ fs' = flush(fs, dstPath, dstFile.pending)
    /\ dstFile' = [open |-> FALSE, pending |-> <<>>]
    /\ pc' = "done"
    /\ UNCHANGED <<srcPath, dstPath, bufsizeArg, srcFile, data, orig, reads,
                   writes>>
    /\ UNCHANGED <<fs0, raisedAt>>
    /\ UNCHANGED fifoVars
    /\ UNCHANGED moreVars

\* open(dstPath, 'wb') raises (no permission, a directory, ...): the
\* error leaves copy, srcFile stays open
OpenDstFails ==
    /\ pc = "open_dst"
    /\ pc' = "raised"
    /\ raisedAt' = "open_dst"
    /\ UNCHANGED <<fs, srcPath, dstPath, bufsizeArg, srcFile, dstFile, data,
                   orig, reads, writes, fs0>>
    /\ UNCHANGED fifoVars
    /\ UNCHANGED moreVars

\* srcFile.read(bufsize) raises: the error leaves copy, lines 26-29 are not
\* run and both files stay open
ReadFails ==
    /\ pc = "read"
    /\ pc' = "raised"
    /\ raisedAt' = "read"
    /\ UNCHANGED <<fs, srcPath, dstPath, bufsizeArg, srcFile, dstFile, data,
                   orig, reads, writes, fs0>>
    /\ UNCHANGED fifoVars
    /\ UNCHANGED moreVars

\* dstFile.write(data) raises: the chunk is not written, the error leaves
\* copy and both files stay open
WriteFails ==
    /\ pc = "write"
    /\ pc' = "raised"
    /\ raisedAt' = "write"
    /\ UNCHANGED <<fs, srcPath, dstPath, bufsizeArg, srcFile, dstFile, data,
                   orig, reads, writes, fs0>>
    /\ UNCHANGED fifoVars
    /\ UNCHANGED moreVars

\* after an error the caller lets go of copy's frame: the file objects
\* left open are finalized, the writer's pending bytes are written out
Release ==
    /\ pc = "raised"
    /\ srcFile.open \/ dstFile.open
    /\ fs' = IF dstFile.open THEN flush(fs, dstPath, dstFile.pending) ELSE fs
    /\ srcFile' = [srcFile EXCEPT !.open = FALSE]
    /\ dstFile' = [open |-> FALSE, pending |-> <<>>]
    /\ UNCHANGED <<srcPath, dstPath, bufsizeArg, pc, data, orig, reads,
                   writes, fs0, raisedAt>>
    /\ UNCHANGED fifoVars
    /\ UNCHANGED moreVars

(* ------------------------------- more ---------------------------------- *)

\* the keys getch can return: space, return, and one other key
Keys == {" ", "\r", "q"}

\* a line of n characters, each tagged with its line and column
Line(i, n) == [j \in 1..n |-> <<i, j>>]

\* data.readline(): the next line, or '' at the end of the input
readline(stream) == IF stream = <<>> THEN <<>> ELSE Head(stream)

\* Wrap().wrap(line, limit).read(): the first limit characters, and the rest
wrap(l, width) ==
    LET n == IF Len(l) < width THEN Len(l) ELSE width
    IN  [wrapped |-> SubSeq(l, 1, n), line |-> SubSeq(l, n + 1, Len(l))]

\* a variant of key_size where return grants a full screen too
key_size_full(inp, num) == num

\* the size a space or a return key sets
key_size(inp, num) == IF inp = " " THEN num ELSE 1

\* no more call is being modelled
MoreIdle ==
    /\ text = <<>> /\ moreData = <<>>
    /\ numberArg = 0 /\ termLines = 1 /\ termCols = 1
    /\ mpc = "idle"
    /\ number = 0 /\ size = 0 /\ limit = 0
    /\ leftdata = <<>> /\ line = <<>>
    /\ printed = <<>> /\ lastKey = "" /\ sinceKey = 0

\* more(data, number) is called on some input, on some terminal
MoreInit ==
    /\ \E lens \in SeqsUpTo(1..MaxLineLen, MaxLines) :
          text = [i \in 1..Len(lens) |-> Line(i, lens[i])]
    /\ moreData = text
    /\ numberArg \in (0 - 1)..MaxNumber
    /\ termLines \in IF numberArg = 0 THEN 1..MaxTermLines ELSE {MaxTermLines}
    /\ termCols \in 1..MaxCols
    /\ mpc = "start"
    /\ number = numberArg /\ size = 0 /\ limit = 0
    /\ leftdata = <<>> /\ line = <<>>
    /\ printed = <<>> /\ lastKey = "" /\ sinceKey = 0

\* the next place after the inner loops are left: while size: ... / getch()
loop_top(sz) == IF sz # 0 THEN "readline" ELSE "getch"

\* lines 5-10: the quota, the width, leftdata = None
Start ==
    /\ mpc = "start"
    /\ LET num == IF numberArg = 0 THEN termLines - 1 ELSE numberArg
       IN  /\ number' = num
           /\ size' = num
           /\ mpc' = loop_top(num)
    /\ limit' = termCols
    /\ leftdata' = <<>>
    /\ UNCHANGED <<text, moreData, numberArg, termLines, termCols, line,
                   printed, lastKey, sinceKey>>
    /\ UNCHANGED <<fifoVars, copyVars>>

\* lines 13-16: take up leftdata, then read the next line over it;
\* return at the end of the input
ReadLine ==
    /\ mpc = "readline"
    /\ LET taken == IF leftdata # <<>> THEN leftdata ELSE line  \* line 14
           next  == readline(moreData)                          \* line 15
       IN  line' = next     \* the assignment of line 15 replaces taken
    /\ leftdata' = <<>>
    /\ moreData' = IF moreData = <<>> THEN <<>> ELSE Tail(moreData)
    /\ mpc' = IF line' = <<>> THEN "returned" ELSE "wrap"
    /\ UNCHANGED <<text, numberArg, termLines, termCols, number, size, limit,
                   printed, lastKey, sinceKey>>
    /\ UNCHANGED <<fifoVars, copyVars>>

\* lines 17-23, one turn of while line: print a piece, count it, and leave
\* with the rest of the line in leftdata when the quota is used up
WrapPrint ==
    /\ mpc = "wrap"
    /\ LET w == wrap(line, limit)
       IN  /\ line' = w.line
           /\ printed' = Append(printed, w.wrapped)
           /\ size' = size - 1
           /\ sinceKey' = sinceKey + 1
           /\ IF size - 1 = 0
              THEN leftdata' = w.line /\ mpc' = "getch"
              ELSE /\ leftdata' = leftdata
                   /\ mpc' = IF w.line # <<>> THEN "wrap" ELSE "readline"
    /\ UNCHANGED <<text, moreData, numberArg, termLines, termCols, number,
                   limit, lastKey>>
    /\ UNCHANGED <<fifoVars, copyVars>>

\* lines 24-30: one key; space and return set size, any other key returns
Getch ==
    /\ mpc = "getch"
    /\ \E inp \in Keys :
          /\ lastKey' = inp
          /\ IF inp \in {" ", "\r"}
             THEN /\ size' = key_size(inp, number)
                  /\ mpc' = loop_top(size')
             ELSE size' = size /\ mpc' = "returned"
    /\ sinceKey' = 0
    /\ UNCHANGED <<text, moreData, numberArg, termLines, termCols, number,
                   limit, leftdata, line, printed>>
    /\ UNCHANGED <<fifoVars, copyVars>>

Init == FifoInit /\ CopyIdle /\ MoreIdle

Next == Filter \/ GetBuffer

Spec == Init /\ [][Next]_vars

InitCopy == CopyInit /\ FifoIdle /\ MoreIdle

NextCopy ==
    \/ OpenSrc \/ OpenDst \/ Read \/ Write \/ Flush \/ CloseSrc \/ CloseDst
    \/ OpenDstFails \/ ReadFails \/ WriteFails \/ Release

SpecCopy == InitCopy /\ [][NextCopy]_vars

InitMore == MoreInit /\ FifoIdle /\ CopyIdle

NextMore == Start \/ ReadLine \/ WrapPrint \/ Getch

SpecMore == InitMore /\ [][NextMore]_vars

(* ------------------------- FifoBuffer: claims -------------------------- *)

\* the last call was a filter call on a buffer of capacity >= 1
FilterCall == call.op = "filter" /\ fifo.size >= 1

\* contents + data of the last filter call
Appended == call.pre \o call.data

\* C1. Lossless concatenation: everything returned by filter so far, in
\* call order, followed by get_buffer(), is d1 + ... + dn, element for
\* element, for every capacity.
C1_Lossless == out \o get_buffer(fifo) = fed

\* a second call evicted part of what the buffer held while keeping the rest
C1_Witness ==
    /\ call.op = "filter" /\ call.pre # <<>> /\ call.res # <<>>
    /\ Len(fed) > Len(call.data) /\ Len(out) > Len(call.res)
    /\ fifo.buffer # <<>>

\* C2. Bound invariant: the stored contents and get_buffer() never exceed
\* the capacity; with capacity 0 nothing is stored.
C2_Bound ==
    /\ Len(fifo.buffer) <= fifo.size
    /\ Len(get_buffer(fifo)) <= fifo.size
    /\ (fifo.size = 0 => fifo.buffer = <<>>)

\* a filter call that overflowed the capacity has completed
C2_Witness ==
    /\ FilterCall /\ Len(Appended) > fifo.size + 1
    /\ Len(fifo.buffer) = fifo.size

\* C3. Eviction step: on overflow filter returns the first
\* overflow = len(contents + data) - C elements of contents + data and keeps
\* exactly the last C: the negative slice is the split at index overflow.
C3_Eviction ==
    /\ (FilterCall /\ Len(Appended) > fifo.size) =>
          LET overflow == Len(Appended) - fifo.size
          IN  /\ call.res = SubSeq(Appended, 1, overflow)
              /\ fifo.buffer = SubSeq(Appended, overflow + 1, Len(Appended))
              /\ Len(fifo.buffer) = fifo.size
    /\ LET r == filter(FifoBuffer(2, list), <<1, 2, 3, 4, 5>>)
       IN  r.res = <<1, 2, 3>> /\ get_buffer(r.self) = <<4, 5>>

\* an overflow that evicts old contents and part of the data just passed
C3_Witness ==
    /\ FilterCall /\ call.pre # <<>>
    /\ Len(Appended) - fifo.size > Len(call.pre)
    /\ Len(call.res) = Len(Appended) - fifo.size

\* an overflow by exactly one element
C3_WitnessByOne ==
    FilterCall /\ Len(Appended) = fifo.size + 1 /\ Len(call.res) = 1

\* C4. Zero-capacity pass-through: with size 0 every filter(x) returns x,
\* the stored contents are never modified and get_buffer() is empty.
C4_PassThrough ==
    fifo.size = 0 =>
        /\ fifo.buffer = list
        /\ get_buffer(fifo) = <<>>
        /\ (call.op = "filter" =>
               call.res = call.data /\ fifo.buffer = call.pre)
        /\ (call.op = "get_buffer" => call.res = <<>>)
        /\ out = fed

\* a non-empty x went through a buffer of size 0
C4_Witness ==
    /\ fifo.size = 0 /\ call.op = "filter"
    /\ Len(call.data) >= 2 /\ Len(fed) > Len(call.data)

\* one filter(d) call on a fresh FifoBuffer of the same size
Batch(d) == filter(FifoBuffer(sizeArg, list), d)

\* C5. Incremental equivalence: feeding d one element per call gives the
\* same aggregate output and the same final get_buffer() as one filter(d)
\* call on a fresh buffer, and so does any other split of d into chunks.
C5_Incremental ==
    /\ singleOut = Batch(fed).res
    /\ get_buffer(single) = get_buffer(Batch(fed).self)
    /\ out = Batch(fed).res
    /\ get_buffer(fifo) = get_buffer(Batch(fed).self)

\* several elements were fed, some were evicted and some are kept
C5_Witness ==
    /\ fifo.size >= 1 /\ Len(fed) >= fifo.size + 2
    /\ Len(singleOut) >= 2 /\ get_buffer(single) # <<>>
    /\ Len(fed) > Len(call.data) /\ Len(call.data) >= 2

\* C6. Negative size normalization: the buffers built with size n and with
\* size -n return the same values at every call and hold the same contents.
C6_NegativeSize ==
    /\ twin.size = fifo.size
    /\ twin.buffer = fifo.buffer
    /\ call.twinRes = call.res
    /\ fifo.size = abs(sizeArg)

\* a buffer built with a negative size has evicted and holds elements
C6_Witness ==
    /\ sizeArg < 0 /\ call.op = "filter"
    /\ call.res # <<>> /\ fifo.buffer # <<>>

\* a buffer built with a negative size answered get_buffer()
C6_WitnessGet ==
    sizeArg < 0 /\ call.op = "get_buffer" /\ call.res # <<>>

\* C7. Within-capacity step: while len(contents + data) <= C (exact fill
\* included) filter returns an empty sequence and stores contents + data.
C7_Within ==
    (FilterCall /\ Len(Appended) <= fifo.size) =>
        call.res = <<>> /\ fifo.buffer = Appended

\* an exact fill by a non-empty data on non-empty contents
C7_Witness ==
    /\ FilterCall /\ call.pre # <<>> /\ call.data # <<>>
    /\ Len(Appended) = fifo.size

\* C8. get_buffer is a read-only snapshot: it returns the whole stored
\* contents (the truncation drops nothing) and leaves size and contents as
\* they were, so that later calls return what they would have without it.
C8_Snapshot ==
    /\ get_buffer(fifo) = fifo.buffer
    /\ call.op = "get_buffer" =>
          /\ call.res = call.pre
          /\ fifo.buffer = call.pre
          /\ fifo.size = abs(sizeArg)
          /\ out \o call.res = fed

\* get_buffer() was called on a full buffer that has evicted before
C8_Witness ==
    /\ call.op = "get_buffer" /\ fifo.size >= 2
    /\ Len(call.res) = fifo.size /\ out # <<>>

\* C9. Empty input: filter(empty) returns an empty sequence and leaves the
\* stored contents unchanged, for every capacity and contents.
C9_EmptyInput ==
    (call.op = "filter" /\ call.data = <<>>) =>
        call.res = <<>> /\ fifo.buffer = call.pre

\* filter(empty) was called on a full buffer
C9_Witness ==
    /\ FilterCall /\ call.data = <<>>
    /\ call.pre # <<>> /\ Len(call.pre) = fifo.size

\* filter(empty) was called on a buffer of size 0
C9_WitnessZero ==
    fifo.size = 0 /\ call.op = "filter" /\ call.data = <<>> /\ fed # <<>>

\* C13. Maximal trailing suffix: with capacity C >= 1 and T elements
\* appended so far, the contents are the last min(C, T) elements of the
\* history and max(0, T - C) elements, the oldest, have been returned; an
\* element leaves in the call that brings C newer ones, never before.
C13_TrailingWindow ==
    fifo.size >= 1 =>
        LET T    == Len(fed)
            kept == IF T < fifo.size THEN T ELSE fifo.size
            gone == IF T > fifo.size THEN T - fifo.size ELSE 0
        IN  /\ fifo.buffer = SubSeq(fed, T - kept + 1, T)
            /\ Len(out) = gone
            /\ out = SubSeq(fed, 1, gone)
            /\ call.op = "filter" =>
                   LET before == T - Len(call.data)
                   IN  Len(out) - Len(call.res) =
                          (IF before > fifo.size THEN before - fifo.size
                           ELSE 0)

\* a call on a full window returned old elements and kept C newer ones
C13_Witness ==
    /\ FilterCall /\ Len(call.pre) = fifo.size /\ fifo.size >= 2
    /\ Len(out) > Len(call.res) /\ call.res # <<>>
    /\ Len(fed) >= 2 * fifo.size + 1

(* ---------------------------- copy: claims ----------------------------- *)

\* copy was called with a chunk size >= 1 and has returned
Returned == pc = "done" /\ bufsizeArg >= 1

\* C10. Chunked copy: for every source content and bufsize >= 1, copy
\* issues writes of at most bufsize bytes each, stops at the first empty
\* read, and on return the destination holds exactly the source's bytes,
\* which are the chunks written, concatenated.
C10_ChunkedCopy ==
    /\ bufsizeArg >= 1 =>
          /\ \A i \in 1..Len(writes) : Len(writes[i]) <= bufsizeArg
          /\ \A i \in 1..Len(reads) : reads[i] = <<>> => i = Len(reads)
          /\ (reads # <<>> /\ reads[Len(reads)] = <<>>) =>
                pc \in {"close_src", "close_dst", "done"}
    /\ Returned =>
          /\ fs[dstPath].exists
          /\ fs[dstPath].bytes = orig
          /\ Concat(writes) = orig

\* C10 for a destination that is another file than the source
C10_DistinctPaths == srcPath # dstPath => C10_ChunkedCopy

\* a source of several chunks, the last one short, has been copied
C10_Witness ==
    /\ Returned /\ srcPath # dstPath
    /\ Len(writes) >= 2 /\ Len(writes[Len(writes)]) < bufsizeArg
    /\ fs[dstPath].bytes = orig

\* copy always comes to an end: every state is final or has a next step
C10_NoStall == pc \in {"done", "raised"} \/ ENABLED NextCopy

\* s is the beginning of t
IsPrefix(s, t) == Len(s) <= Len(t) /\ s = SubSeq(t, 1, Len(s))

\* C15. Failure semantics: an error of open, read or write reaches the
\* caller; when opening the source failed the destination is neither
\* created nor truncated; when a read or a write failed the destination
\* holds exactly the chunks written before, a prefix of the source.
C15_FailureSemantics ==
    /\ raisedAt # "" <=> pc = "raised"
    /\ (pc = "raised" /\ raisedAt = "open_src") => fs = fs0
    /\ (pc = "raised" /\ raisedAt \in {"read", "write"}) =>
          /\ fs[dstPath].bytes = Concat(writes)
          /\ IsPrefix(Concat(writes), orig)

\* C15 but for the bytes still in the writer's buffer: the destination
\* and the pending bytes together are the chunks written, and the
\* destination alone once the writer is closed or finalized
C15_WithPending ==
    /\ raisedAt # "" <=> pc = "raised"
    /\ (pc = "raised" /\ raisedAt = "open_src") => fs = fs0
    /\ (pc = "raised" /\ raisedAt = "open_dst") => fs = fs0
    /\ (pc = "raised" /\ raisedAt \in {"read", "write"}) =>
          /\ fs[dstPath].bytes \o dstFile.pending = Concat(writes)
          /\ IsPrefix(Concat(writes), orig)
          /\ IsPrefix(fs[dstPath].bytes, orig)

\* a read failed after two chunks were written to another file
C15_Witness ==
    /\ pc = "raised" /\ raisedAt = "read" /\ srcPath # dstPath
    /\ Len(writes) >= 2 /\ Len(Concat(writes)) < Len(orig)

(* ---------------------------- more: claims ----------------------------- *)

\* the pieces wrap cuts a line into, in order
RECURSIVE Pieces(_, _)
Pieces(l, width) ==
    IF l = <<>> THEN <<>>
    ELSE <<wrap(l, width).wrapped>> \o Pieces(wrap(l, width).line, width)

\* the pieces of all lines of an input, in order
RECURSIVE AllPieces(_, _)
AllPieces(t, width) ==
    IF t = <<>> THEN <<>>
    ELSE Pieces(Head(t), width) \o AllPieces(Tail(t), width)

\* the quota the last key granted (the call itself grants number)
Quota == IF lastKey = "\r" THEN 1 ELSE number

\* C11. Keystroke protocol: with a positive quota number, more blocks for a
\* key exactly when the quota granted last (number at the call and after a
\* space, 1 after a return) has been printed; any other key makes it return
\* with nothing more printed; never more than the quota between two waits.
C11_Protocol ==
    (mpc # "start" /\ number > 0) =>
        /\ sinceKey <= Quota
        /\ lastKey # "q" => size + sinceKey = Quota
        /\ mpc = "getch" => sinceKey = Quota /\ size = 0
        /\ lastKey = "q" => mpc = "returned" /\ sinceKey = 0
        /\ Len(printed) >= sinceKey

\* after a full screen and a return key, one more piece, and a wait again
C11_Witness ==
    /\ mpc = "getch" /\ lastKey = "\r" /\ number >= 2
    /\ sinceKey = 1 /\ Len(printed) >= number + 1

\* after a space, a second full screen, and a wait again
C11_WitnessSpace ==
    /\ mpc = "getch" /\ lastKey = " " /\ number >= 2
    /\ sinceKey = number /\ Len(printed) = 2 * number

\* C12. Everything is displayed: when the user answers every prompt with
\* space or return, more returns having printed every piece of every line
\* once, in order, a line cut by the end of a screen included.
C12_DisplaysAll ==
    (mpc = "returned" /\ lastKey # "q") =>
        printed = AllPieces(text, limit)

\* what more prints is always some of the pieces, in input order
C12_NoneTwice ==
    \A i, j \in 1..Len(printed) :
        i < j => \/ printed[i][1][1] < printed[j][1][1]
                 \/ /\ printed[i][1][1] = printed[j][1][1]
                    /\ printed[i][1][2] < printed[j][1][2]

\* C14. Progress: between two keystroke waits at least one piece is
\* printed (or more returns), whatever number and the terminal height are.
C14_Progress ==
    (mpc = "getch" /\ lastKey # "") => sinceKey >= 1

\* C14 for a quota of at least one line
C14_PositiveQuota == number > 0 => C14_Progress

\* more can always take a step until it has returned
C14_NoStall == mpc = "returned" \/ ENABLED NextMore

====
